---- MODULE Spec2Model ----
(***************************************************************************)
(* Model of offline_workflow_manager.py: a command-line task tracker over  *)
(* a local SQLite file.  One process run is a sequence of steps            *)
(*   boot (line 189) -> gate (190-192) -> main (169) -> parse (170)        *)
(*   -> dispatch (171-184) -> exited                                       *)
(* over the persistent store (the tables of workflow.db), the files the    *)
(* run writes, and the local clock.                                        *)
(***************************************************************************)
EXTENDS Integers, Sequences, FiniteSets, TLC

VARIABLES
    tables,     \* names of the tables that exist in workflow.db
    employees,  \* rows of table employees, in rowid order
    tasks,      \* rows of table tasks, in rowid order
    shifts,     \* rows of table shifts, in rowid order
    written,    \* the files the running process has written, in order
    now,        \* the local clock, in minutes
    pc,         \* position of the running process
    argv,       \* sys.argv[1:] of the running process
    args,       \* the namespace parse_args returned
    prompted,   \* the two credential prompts have been answered in this run
    conns,      \* the sqlite3 connections this run acquired, and their state
    stdout,     \* what the run printed on standard output
    stderr,     \* what the run printed on standard error
    exitCode    \* the exit status, once exited

vars == <<tables, employees, tasks, shifts, written, now, pc, argv, args,
          prompted, conns, stdout, stderr, exitCode>>

-----------------------------------------------------------------------------
(* Bounds of the model *)

MaxEmployees == 2
MaxTasks == 2
MaxTicks == 1
\* the clock starts shortly before the hour, so that the runs cross it
ClockStart == 59

(* Python's None, and a present value *)
None == << >>
Some(v) == <<v>>

-----------------------------------------------------------------------------
(* Timestamps *)

MinutesPerHour == 60

\* a day-first format ("%d-%m-%Y ..."): least significant field first
DATE_FMT_LeastFirst(t) == <<t % MinutesPerHour, t \div MinutesPerHour>>

\* strftime(DATE_FMT): zero-padded fields, most significant first.  The
\* fields above the minute are kept as one (the date and hour), the minute
\* as the other; the text compares field by field, as the string does.
DATE_FMT(t) == <<t \div MinutesPerHour, t % MinutesPerHour>>

\* strftime("%Y%m%d_%H%M") of export_csv: the same fields, minute resolution
ExportStamp(t) == <<t \div MinutesPerHour, t % MinutesPerHour>>

\* the order of two formatted timestamps, as text (SQLite TEXT / str)
TsLeq(a, b) == a[1] < b[1] \/ (a[1] = b[1] /\ a[2] <= b[2])

-----------------------------------------------------------------------------
(* The schema of init_db *)

TableNames == <<"employees", "tasks", "shifts">>

Columns(table) ==
    CASE table = "employees" -> <<"id", "name", "role", "active">>
      [] table = "tasks" -> <<"id", "title", "description", "assignee_id",
                              "status", "deadline", "created", "updated">>
      [] table = "shifts" -> <<"id", "employee_id", "start", "end">>

\* the hyphen of the source's 'in-progress' literals is U+2011
\* (NON-BREAKING HYPHEN), in the CHECK constraint and in both choices lists
NBHyphenInProgress == "in<U+2011>progress"

\* DEFAULT 'todo'
StatusDefault == "todo"

\* AUTOINCREMENT: one more than the largest rowid ever used (no row is
\* ever deleted, so that of the last row)
NextId(rows) == IF rows = << >> THEN 1 ELSE rows[Len(rows)].id + 1

-----------------------------------------------------------------------------
(* parse_args *)

Commands == {"add-employee", "list-employees", "add-task", "list-tasks",
             "update-task", "export"}

\* tokens argparse takes for option strings (they start with '-')
OptionLike == {"--role", "--all", "--desc", "--assignee", "--deadline",
               "--status", "--bogus"}

\* int(token) of type=int, on the tokens of the model
IntTokens == {"0", "1", "2", "3", "9"}
IntOf(tok) ==
    CASE tok = "0" -> 0 [] tok = "1" -> 1 [] tok = "2" -> 2
      [] tok = "3" -> 3 [] tok = "9" -> 9

\* the positional arguments of each subparser, in order
Positionals(cmd) ==
    CASE cmd = "add-employee" -> <<"name">>
      [] cmd = "add-task" -> <<"title">>
      [] cmd = "update-task" -> <<"id", "status">>
      [] OTHER -> << >>

\* the options of each subparser: option string -> dest
Options(cmd) ==
    CASE cmd = "add-employee" -> [o \in {"--role"} |-> "role"]
      [] cmd = "list-employees" -> [o \in {"--all"} |-> "all"]
      [] cmd = "add-task" ->
            [o \in {"--desc", "--assignee", "--deadline"} |->
                CASE o = "--desc" -> "desc"
                  [] o = "--assignee" -> "assignee"
                  [] o = "--deadline" -> "deadline"]
      [] cmd = "list-tasks" -> [o \in {"--status"} |-> "status"]
      [] OTHER -> [o \in {} |-> ""]

\* the status choices of update-task and list-tasks --status
StatusChoices == {"todo", NBHyphenInProgress, "done"}
\* the --role choices of add-employee
RoleChoices == {"staff", "manager"}

\* type= and choices= of one argument: None when the token is refused
Convert(dest, tok) ==
    CASE dest = "role" -> IF tok \in RoleChoices THEN Some(tok) ELSE None
      [] dest = "status" -> IF tok \in StatusChoices THEN Some(tok) ELSE None
      [] dest \in {"assignee", "id"} ->
            IF tok \in IntTokens THEN Some(IntOf(tok)) ELSE None
      [] OTHER -> Some(tok)

\* the namespace before any argument is read: the defaults of the subparser
Defaults(cmd) ==
    [ok |-> TRUE, cmd |-> cmd, name |-> None, role |-> Some("staff"),
     all |-> FALSE, title |-> None, desc |-> Some(""), assignee |-> None,
     deadline |-> None, id |-> None, status |-> None]

\* the namespace of a refused command line (parse_args exits instead)
Refused == [Defaults("") EXCEPT !.ok = FALSE]

RECURSIVE Scan(_, _, _, _)
\* argparse over the tokens after the command: rest, the positionals still
\* unfilled, the options of the subparser, the namespace so far
Scan(rest, pos, opts, ns) ==
    IF rest = << >>
    THEN IF pos = << >> THEN ns ELSE Refused      \* arguments are required
    ELSE LET tok == Head(rest) IN
         IF tok \in OptionLike
         THEN IF tok \notin DOMAIN opts
              THEN Refused                        \* unrecognized arguments
              ELSE IF opts[tok] = "all"
              THEN Scan(Tail(rest), pos, opts, [ns EXCEPT !.all = TRUE])
              ELSE IF Len(rest) < 2 \/ rest[2] \in OptionLike
              THEN Refused                        \* expected one argument
              ELSE LET v == Convert(opts[tok], rest[2]) IN
                   IF v = None
                   THEN Refused                   \* invalid choice / int
                   ELSE Scan(Tail(Tail(rest)), pos, opts,
                             [ns EXCEPT ![opts[tok]] = v])
         ELSE IF pos = << >>
              THEN Refused                        \* unrecognized arguments
              ELSE LET v == Convert(Head(pos), tok) IN
                   IF v = None
                   THEN Refused
                   ELSE Scan(Tail(rest), Tail(pos), opts,
                             [ns EXCEPT ![Head(pos)] = v])

\* p.parse_args() on sys.argv[1:]: the subcommand is required and first
parse_args(av) ==
    IF av = << >> \/ av[1] \notin Commands
    THEN Refused
    ELSE Scan(Tail(av), Positionals(av[1]), Options(av[1]), Defaults(av[1]))

-----------------------------------------------------------------------------
(* The command lines the model runs: sys.argv[1:] *)

UpdateTaskArgv ==
    {<<"update-task", "1", s>> : s \in StatusChoices}
    \cup {<<"update-task", "2", "done">>, <<"update-task", "9", "done">>,
          <<"update-task", "1", "in-progress">>, <<"update-task", "1">>,
          <<"update-task", "x", "done">>}

ListTasksArgv ==
    {<<"list-tasks">>, <<"list-tasks", "--status", "done">>,
     <<"list-tasks", "--status", "in-progress">>}

ArgvInputs ==
    {<< >>, <<"bogus">>, <<"export">>,
     <<"add-employee">>, <<"add-employee", "Alice">>,
     <<"add-employee", "", "--role", "manager">>,
     <<"add-employee", "Alice", "--role", "boss">>,
     <<"list-employees">>, <<"list-employees", "--all">>,
     <<"add-task", "T">>,
     <<"add-task", "--deadline", "D", "T", "--assignee", "2">>,
     <<"add-task", "T", "--assignee", "x">>}
    \cup UpdateTaskArgv \cup ListTasksArgv

\* the runs the bounds of the model leave out: an insert into a full table
WithinBounds(av) ==
    /\ (av # << >> /\ av[1] = "add-employee") => Len(employees) < MaxEmployees
    /\ (av # << >> /\ av[1] = "add-task") => Len(tasks) < MaxTasks

-----------------------------------------------------------------------------
(* The database operations, as what they do to the store *)

\* `with sqlite3.connect(DB_PATH) as conn:` acquires a connection; leaving
\* the block commits the transaction and does not close the connection
ConnAfterWith == "open"
connect(cs) == Append(cs, ConnAfterWith)

\* CREATE TABLE IF NOT EXISTS, three times
init_db_tables(ts) == ts \cup {TableNames[i] : i \in 1..Len(TableNames)}

\* INSERT INTO employees (name, role, active) VALUES (?,?,1)
add_employee(rows, name, role) ==
    Append(rows, [id |-> NextId(rows), name |-> name, role |-> role,
                  active |-> 1])

\* INSERT INTO tasks (title, description, assignee_id, deadline, created,
\* updated) VALUES (?,?,?,?,now,now); status takes the column's default
add_task(rows, title, description, assignee_id, deadline, t) ==
    Append(rows, [id |-> NextId(rows), title |-> title,
                  description |-> description, assignee_id |-> assignee_id,
                  status |-> StatusDefault, deadline |-> deadline,
                  created |-> DATE_FMT(t), updated |-> DATE_FMT(t)])

\* UPDATE tasks SET updated=? WHERE id=?  (the status is not written)
update_task_status_NoStatus(rows, task_id, status, t) ==
    [i \in 1..Len(rows) |->
        IF rows[i].id = task_id
        THEN [rows[i] EXCEPT !.updated = DATE_FMT(t)]
        ELSE rows[i]]

\* UPDATE tasks SET status=?, updated=?  (no WHERE clause)
update_task_status_NoWhere(rows, task_id, status, t) ==
    [i \in 1..Len(rows) |->
        [rows[i] EXCEPT !.status = status, !.updated = DATE_FMT(t)]]

\* INSERT OR REPLACE: a missing id gets a new row
update_task_status_Upsert(rows, task_id, status, t) ==
    IF \E i \in 1..Len(rows) : rows[i].id = task_id
    THEN [i \in 1..Len(rows) |->
            IF rows[i].id = task_id
            THEN [rows[i] EXCEPT !.status = status, !.updated = DATE_FMT(t)]
            ELSE rows[i]]
    ELSE Append(rows, [id |-> task_id, title |-> "", description |-> None,
                       assignee_id |-> None, status |-> status,
                       deadline |-> None, created |-> DATE_FMT(t),
                       updated |-> DATE_FMT(t)])

\* UPDATE tasks SET status=?, updated=? WHERE id=?
update_task_status(rows, task_id, status, t) ==
    [i \in 1..Len(rows) |->
        IF rows[i].id = task_id
        THEN [rows[i] EXCEPT !.status = status, !.updated = DATE_FMT(t)]
        ELSE rows[i]]

\* Python's `x or placeholder` on a nullable text: None and '' are falsy
OrElse(x, placeholder) == IF x = None \/ x = Some("") THEN placeholder ELSE x[1]

\* one printed line of list_employees, as its fields
EmployeeLine(e) ==
    [id |-> e.id, name |-> e.name, role |-> e.role,
     label |-> IF e.active # 0 THEN "active" ELSE "inactive"]

\* SELECT id, name, role, active FROM employees [WHERE active=1]
list_employees(rows, active_only) ==
    LET selected == IF active_only
                    THEN SelectSeq(rows, LAMBDA e : e.active = 1)
                    ELSE rows
    IN  [i \in 1..Len(selected) |-> EmployeeLine(selected[i])]

\* the join written ON t.id = e.id
JoinedName_OnTaskId(t, emps) ==
    IF ~ \E i \in 1..Len(emps) : emps[i].id = t.id
    THEN None
    ELSE Some(emps[CHOOSE i \in 1..Len(emps) : emps[i].id = t.id].name)

\* e.name of `tasks t LEFT JOIN employees e ON t.assignee_id = e.id`: NULL
\* when assignee_id is NULL or no employee has that id
JoinedName(t, emps) ==
    IF t.assignee_id = None
       \/ ~ \E i \in 1..Len(emps) : emps[i].id = t.assignee_id[1]
    THEN None
    ELSE Some(emps[CHOOSE i \in 1..Len(emps) :
                       emps[i].id = t.assignee_id[1]].name)

\* one printed line of list_tasks, as its fields
TaskLine(t, emps) ==
    [id |-> t.id, title |-> t.title,
     assignee |-> OrElse(JoinedName(t, emps), "unassigned"),
     status |-> t.status, deadline |-> OrElse(t.deadline, "-")]

\* SELECT ... FROM tasks t LEFT JOIN employees e ... [WHERE t.status=?]
list_tasks(rows, emps, filter_status) ==
    LET selected == IF filter_status # None /\ filter_status # Some("")
                    THEN SelectSeq(rows, LAMBDA t : t.status = filter_status[1])
                    ELSE rows
    IN  [i \in 1..Len(selected) |-> TaskLine(selected[i], emps)]

\* csv.writer's text of a value: str(v), and '' for None
CsvInt(n) == ToString(n)
CsvOptInt(x) == IF x = None THEN "" ELSE ToString(x[1])
CsvOptText(x) == IF x = None THEN "" ELSE x[1]

\* one row of SELECT * FROM <table>, as csv.writer writes it
CsvRow(table, r) ==
    CASE table = "employees" ->
            <<CsvInt(r.id), r.name, r.role, CsvInt(r.active)>>
      [] table = "tasks" ->
            <<CsvInt(r.id), r.title, CsvOptText(r.description),
              CsvOptInt(r.assignee_id), r.status, CsvOptText(r.deadline),
              r.created, r.updated>>
      [] table = "shifts" ->
            <<CsvInt(r.id), CsvOptInt(r.employee_id), r.start, r.end>>

\* writer.writerow(cols) left out
CsvFile_NoHeader(table, rows, t) ==
    [dir |-> ExportStamp(t), name |-> table \o ".csv",
     lines |-> [i \in 1..Len(rows) |-> CsvRow(table, rows[i])]]

\* the file export_csv writes for one table: the header, then the rows
CsvFile(table, rows, t) ==
    [dir |-> ExportStamp(t), name |-> table \o ".csv",
     lines |-> <<Columns(table)>>
               \o [i \in 1..Len(rows) |-> CsvRow(table, rows[i])]]

\* for table in ["employees", "tasks", "shifts"]: ... writer.writerows(rows)
export_csv(emps, tsks, shfs, t) ==
    <<CsvFile("employees", emps, t), CsvFile("tasks", tsks, t),
      CsvFile("shifts", shfs, t)>>

\* the test written `in` for `not in`
NeedsLogin_Inverted(av) == Len(av) > 0 /\ av[1] \in {"list-employees", "list-tasks"}

\* sys.argv[1] not in ("list-employees", "list-tasks"), given len(sys.argv) > 1
NeedsLogin(av) == Len(av) > 0 /\ av[1] \notin {"list-employees", "list-tasks"}

-----------------------------------------------------------------------------
(* The state machine *)

NoArgs == Defaults("")

Init ==
    /\ tables = {}
    /\ employees = << >>
    /\ tasks = << >>
    /\ shifts = << >>
    /\ written = << >>
    /\ now = ClockStart
    /\ pc = "idle"
    /\ argv = << >>
    /\ args = NoArgs
    /\ prompted = FALSE
    /\ conns = << >>
    /\ stdout = << >>
    /\ stderr = << >>
    /\ exitCode = None

\* the local clock advances; dt.datetime.now() is taken never to go back
\* (no change of the system time or of the UTC offset between two reads)
Tick ==
    /\ now < ClockStart + MaxTicks
    /\ now' = now + 1
    /\ UNCHANGED <<tables, employees, tasks, shifts, written, pc, argv, args,
                   prompted, conns, stdout, stderr, exitCode>>

\* the user starts the program with a command line
StartRun ==
    /\ pc \in {"idle", "exited"}
    /\ \E av \in ArgvInputs :
          /\ WithinBounds(av)
          /\ argv' = av
    /\ pc' = "boot"
    /\ args' = NoArgs
    /\ prompted' = FALSE
    /\ conns' = << >>
    /\ written' = << >>
    /\ stdout' = << >>
    /\ stderr' = << >>
    /\ exitCode' = None
    /\ UNCHANGED <<tables, employees, tasks, shifts, now>>

\* line 189: init_db() of the __main__ block
Boot ==
    /\ pc = "boot"
    /\ conns' = connect(conns)
    /\ tables' = init_db_tables(tables)
    /\ pc' = "gate"
    /\ UNCHANGED <<employees, tasks, shifts, written, now, argv, args,
                   prompted, stdout, stderr, exitCode>>

\* lines 190-192: the two prompts, unless the first argument is a list command
AuthGate ==
    /\ pc = "gate"
    /\ prompted' = NeedsLogin(argv)
    /\ pc' = "main"
    /\ UNCHANGED <<tables, employees, tasks, shifts, written, now, argv, args,
                   conns, stdout, stderr, exitCode>>

\* line 169: init_db() of main
MainInitDb ==
    /\ pc = "main"
    /\ conns' = connect(conns)
    /\ tables' = init_db_tables(tables)
    /\ pc' = "parse"
    /\ UNCHANGED <<employees, tasks, shifts, written, now, argv, args,
                   prompted, stdout, stderr, exitCode>>

\* the parser reporting the error and returning status 0
ParseArgs_ExitZero ==
    /\ pc = "parse"
    /\ LET ns == parse_args(argv) IN
          /\ args' = ns
          /\ IF ns.ok
             THEN /\ pc' = "dispatch"
                  /\ UNCHANGED <<stderr, exitCode>>
             ELSE /\ pc' = "exited"
                  /\ stderr' = <<"usage">>
                  /\ exitCode' = Some(0)
    /\ UNCHANGED <<tables, employees, tasks, shifts, written, now, argv,
                   prompted, conns, stdout>>

\* line 170: parse_args(); argparse prints the usage and exits with status 2
\* on a command line it refuses
ParseArgs ==
    /\ pc = "parse"
    /\ LET ns == parse_args(argv) IN
          /\ args' = ns
          /\ IF ns.ok
             THEN /\ pc' = "dispatch"
                  /\ UNCHANGED <<stderr, exitCode>>
             ELSE /\ pc' = "exited"
                  /\ stderr' = <<"usage">>
                  /\ exitCode' = Some(2)
    /\ UNCHANGED <<tables, employees, tasks, shifts, written, now, argv,
                   prompted, conns, stdout>>

\* what every branch of main's dispatch ends with: main returns, exit status 0
Returns ==
    /\ pc' = "exited"
    /\ exitCode' = Some(0)
    /\ UNCHANGED <<tables, now, argv, args, prompted, stderr>>

AddEmployee ==
    /\ pc = "dispatch" /\ args.cmd = "add-employee"
    /\ conns' = connect(conns)
    /\ employees' = add_employee(employees, args.name[1], args.role[1])
    /\ Returns
    /\ UNCHANGED <<tasks, shifts, written, stdout>>

ListEmployees ==
    /\ pc = "dispatch" /\ args.cmd = "list-employees"
    /\ conns' = connect(conns)
    /\ stdout' = list_employees(employees, ~ args.all)
    /\ Returns
    /\ UNCHANGED <<employees, tasks, shifts, written>>

AddTask ==
    /\ pc = "dispatch" /\ args.cmd = "add-task"
    /\ conns' = connect(conns)
    /\ tasks' = add_task(tasks, args.title[1], args.desc, args.assignee,
                         args.deadline, now)
    /\ Returns
    /\ UNCHANGED <<employees, shifts, written, stdout>>

ListTasks ==
    /\ pc = "dispatch" /\ args.cmd = "list-tasks"
    /\ conns' = connect(conns)
    /\ stdout' = list_tasks(tasks, employees, args.status)
    /\ Returns
    /\ UNCHANGED <<employees, tasks, shifts, written>>

UpdateTask ==
    /\ pc = "dispatch" /\ args.cmd = "update-task"
    /\ conns' = connect(conns)
    /\ tasks' = update_task_status(tasks, args.id[1], args.status[1], now)
    /\ Returns
    /\ UNCHANGED <<employees, shifts, written, stdout>>

Export ==
    /\ pc = "dispatch" /\ args.cmd = "export"
    /\ conns' = connect(conns)
    /\ written' = export_csv(employees, tasks, shifts, now)
    /\ stdout' = <<[exported |-> ExportStamp(now)]>>
    /\ Returns
    /\ UNCHANGED <<employees, tasks, shifts>>

Next ==
    \/ Tick
    \/ StartRun
    \/ Boot
    \/ AuthGate
    \/ MainInitDb
    \/ ParseArgs
    \/ AddEmployee
    \/ ListEmployees
    \/ AddTask
    \/ ListTasks
    \/ UpdateTask
    \/ Export

Spec == Init /\ [][Next]_vars

-----------------------------------------------------------------------------
(* Properties *)

\* the step that runs the command of kind cmd: main's dispatch branch
Dispatches(cmd) == pc = "dispatch" /\ args.cmd = cmd /\ pc' = "exited"

\* the run of command cmd has returned from main
Ran(cmd) == pc = "exited" /\ args.ok /\ args.cmd = cmd /\ exitCode = Some(0)

HasTask(k) == \E i \in 1..Len(tasks) : tasks[i].id = k

\* C1: update-task on the id of a stored task, with a status the parser
\* accepted, leaves that task with the given status and with an updated
\* timestamp not before (as text) the one it had.
C1_UpdateSetsStatusAndTime ==
    [][Dispatches("update-task") =>
          \A i \in 1..Len(tasks) :
             tasks[i].id = args.id[1] =>
                /\ Len(tasks') = Len(tasks)
                /\ tasks'[i].id = tasks[i].id
                /\ tasks'[i].status = args.status[1]
                /\ TsLeq(tasks[i].updated, tasks'[i].updated)]_vars

\* an update-task run that changed a task's status to done and moved its
\* updated timestamp past its created one
C1_Witness ==
    /\ Ran("update-task")
    /\ \E i \in 1..Len(tasks) :
          /\ tasks[i].id = args.id[1]
          /\ args.status = Some("done")
          /\ tasks[i].status = "done"
          /\ tasks[i].updated # tasks[i].created

\* C2: update-task on an id no stored task has changes no table and no
\* row, writes no file, reports nothing on either stream and ends with
\* exit status 0.
C2_MissingIdIsNoOp ==
    [][(Dispatches("update-task") /\ ~ HasTask(args.id[1])) =>
          /\ UNCHANGED <<tables, employees, tasks, shifts, written>>
          /\ stdout' = << >>
          /\ stderr' = << >>
          /\ exitCode' = Some(0)]_vars

\* an update-task run on a missing id, over a store that holds tasks
C2_Witness ==
    /\ Ran("update-task")
    /\ Len(tasks) > 0
    /\ ~ HasTask(args.id[1])

\* C3: every stored task has updated >= created (as text), and right after
\* add-task the new task has status todo and created = updated.
C3_UpdatedNotBeforeCreated ==
    /\ \A i \in 1..Len(tasks) : TsLeq(tasks[i].created, tasks[i].updated)
    /\ Ran("add-task") =>
          /\ Len(tasks) > 0
          /\ tasks[Len(tasks)].status = "todo"
          /\ tasks[Len(tasks)].created = tasks[Len(tasks)].updated

\* add-task has just run on a store whose first task was updated in a later
\* hour than it was created in
C3_Witness ==
    /\ Ran("add-task")
    /\ Len(tasks) = 2
    /\ tasks[1].updated[1] > tasks[1].created[1]

\* the fields of a task that no operation writes after the insert
Frozen(t) == <<t.id, t.title, t.description, t.assignee_id, t.deadline, t.created>>

\* C10: no step deletes a task or changes its id, title, description,
\* assignee, deadline or created; a task changes only in the update-task
\* step on its own id, which changes no other task and no employee.
C10_OnlyUpdateTaskChangesATask ==
    [][/\ Len(tasks') >= Len(tasks)
       /\ \A i \in 1..Len(tasks) :
             /\ Frozen(tasks'[i]) = Frozen(tasks[i])
             /\ tasks'[i] # tasks[i] =>
                   /\ Dispatches("update-task")
                   /\ args.id[1] = tasks[i].id
                   /\ employees' = employees
                   /\ Len(tasks') = Len(tasks)
                   /\ \A j \in 1..Len(tasks) : j # i => tasks'[j] = tasks[j]
      ]_vars

\* update-task has changed the first of two assigned tasks and left the
\* second as add-task made it
C10_Witness ==
    /\ Ran("update-task")
    /\ Len(tasks) = 2
    /\ Len(employees) > 0
    /\ args.id = Some(1)
    /\ tasks[1].status = "done"
    /\ tasks[1].updated # tasks[1].created
    /\ tasks[2].status = "todo"
    /\ tasks[2].updated = tasks[2].created

\* the lines export must write for a table holding rows: the column names,
\* then one line per row, in order
IsSnapshotOf(lines, table, rows) ==
    /\ Len(lines) = Len(rows) + 1
    /\ lines[1] = Columns(table)
    /\ \A i \in 1..Len(rows) : lines[i + 1] = CsvRow(table, rows[i])

\* C8: export writes, into one directory, employees.csv, tasks.csv and
\* shifts.csv, each the table's column names followed by one line per
\* stored row (n rows give n+1 lines), and changes no row of the store.
C8_ExportWritesEveryRow ==
    [][Dispatches("export") =>
          /\ UNCHANGED <<tables, employees, tasks, shifts>>
          /\ Len(written') = 3
          /\ \A k \in 1..3 : written'[k].dir = written'[1].dir
          /\ written'[1].name = "employees.csv"
          /\ written'[2].name = "tasks.csv"
          /\ written'[3].name = "shifts.csv"
          /\ IsSnapshotOf(written'[1].lines, "employees", employees)
          /\ IsSnapshotOf(written'[2].lines, "tasks", tasks)
          /\ IsSnapshotOf(written'[3].lines, "shifts", shifts)]_vars

\* export has run over two employees and two tasks, one of them assigned
\* and updated, one not assigned: three lines in each of the two files
C8_Witness ==
    /\ Ran("export")
    /\ Len(written) = 3
    /\ Len(written[1].lines) = 3
    /\ Len(written[2].lines) = 3
    /\ Len(written[3].lines) = 1
    /\ \E i, j \in 1..Len(tasks) :
          /\ tasks[i].assignee_id = None
          /\ tasks[j].assignee_id # None
          /\ tasks[j].status # "todo"

\* the stored task a printed line of list-tasks is about
TaskOfLine(line) == tasks[CHOOSE i \in 1..Len(tasks) : tasks[i].id = line.id]

\* C4, as claimed: a listed task created with no assignee shows
\* "unassigned", and one created with an assignee id shows the name of the
\* employee with that id.
C4_AssigneeColumnAsClaimed ==
    Ran("list-tasks") =>
       \A k \in 1..Len(stdout) :
          LET t == TaskOfLine(stdout[k]) IN
             /\ t.assignee_id = None => stdout[k].assignee = "unassigned"
             /\ t.assignee_id # None =>
                   \E i \in 1..Len(employees) :
                      /\ employees[i].id = t.assignee_id[1]
                      /\ stdout[k].assignee = employees[i].name

\* C4, amended: a listed task shows the name of the stored employee whose
\* id is its assignee id when there is one and the name is not empty, and
\* "unassigned" in every other case (no assignee id, an id no employee
\* has, an employee whose name is empty).
C4_AssigneeColumn ==
    Ran("list-tasks") =>
       /\ \A k \in 1..Len(stdout) : HasTask(stdout[k].id)
       /\ \A k \in 1..Len(stdout) :
             LET t == TaskOfLine(stdout[k])
                 named == {i \in 1..Len(employees) :
                              /\ t.assignee_id # None
                              /\ employees[i].id = t.assignee_id[1]
                              /\ employees[i].name # ""}
             IN  /\ named = {} => stdout[k].assignee = "unassigned"
                 /\ \A i \in named : stdout[k].assignee = employees[i].name

\* list-tasks has printed one task under the name of its assignee, the
\* second employee, and another, created with no assignee, as "unassigned"
C4_Witness ==
    /\ Ran("list-tasks")
    /\ \E k1, k2 \in 1..Len(stdout) :
          /\ stdout[k1].assignee = "Alice"
          /\ TaskOfLine(stdout[k1]).assignee_id = Some(2)
          /\ stdout[k2].assignee = "unassigned"
          /\ TaskOfLine(stdout[k2]).assignee_id = None

\* the status values the specification names, with the ASCII hyphen
SpecStatuses == {"todo", "in-progress", "done"}

\* the run is past parse_args
Parsed == pc \in {"dispatch", "exited"}

\* C5, as claimed: update-task and list-tasks --status accept exactly todo,
\* in-progress and done, and every stored status is one of the three.
C5_StatusSetAsClaimed ==
    /\ (Parsed /\ Len(argv) = 3 /\ argv[1] = "update-task"
              /\ argv[2] \in IntTokens) =>
          (args.ok <=> argv[3] \in SpecStatuses)
    /\ (Parsed /\ Len(argv) = 3 /\ argv[1] = "list-tasks"
              /\ argv[2] = "--status") =>
          (args.ok <=> argv[3] \in SpecStatuses)
    /\ \A i \in 1..Len(tasks) : tasks[i].status \in SpecStatuses

\* the list commands, which the login prompt exempts
ListCommands == {"list-employees", "list-tasks"}

\* a step of the running process (not the start of a run, not the clock)
RunStep == pc \in {"boot", "gate", "main", "parse", "dispatch"} /\ pc' # pc

\* C6, as claimed: a command other than the list commands is dispatched
\* only after the prompts, a list command with no prompt, and in a run that
\* will prompt no step before the prompts are answered changes the store or
\* the filesystem.
C6_PromptFirstAsClaimed ==
    [][/\ Dispatches("list-employees") \/ Dispatches("list-tasks") =>
             ~ prompted
       /\ (pc = "dispatch" /\ pc' = "exited" /\ args.cmd \notin ListCommands) =>
             prompted
       /\ (RunStep /\ Len(argv) > 0 /\ argv[1] \notin ListCommands
                   /\ ~ prompted') =>
             UNCHANGED <<tables, employees, tasks, shifts, written>>]_vars

\* C6, amended: a command other than the list commands is dispatched only
\* after the prompts, a list command with no prompt; rows and export files
\* change only in the dispatched command's own step, and the one change
\* that precedes the prompts is init_db's creation of the missing tables.
C6_PromptBeforeDispatch ==
    [][/\ Dispatches("list-employees") \/ Dispatches("list-tasks") =>
             ~ prompted
       /\ (pc = "dispatch" /\ pc' = "exited" /\ args.cmd \notin ListCommands) =>
             prompted
       /\ <<employees, tasks, shifts>> # <<employees, tasks, shifts>>' =>
             pc = "dispatch" /\ pc' = "exited"
       /\ (RunStep /\ written' # written) =>
             pc = "dispatch" /\ pc' = "exited"
       /\ (RunStep /\ ~ prompted' /\ tables' # tables) =>
             /\ pc = "boot"
             /\ tables' = {"employees", "tasks", "shifts"}]_vars

\* add-task has run, after the prompts, on a store that init_db had
\* initialized and that held no row
C6_Witness ==
    /\ Ran("add-task")
    /\ prompted
    /\ Len(tasks) = 1
    /\ Len(employees) = 0
    /\ tables # {}

\* C7, as claimed: a refused command line ends the run with a non-zero
\* status and a usage message, with no database operation (schema
\* initialization included), no prompt and no export done in the run.
C7_RefusedBeforeAnythingAsClaimed ==
    (pc = "exited" /\ ~ args.ok) =>
       /\ exitCode # None /\ exitCode # Some(0)
       /\ stderr = <<"usage">>
       /\ conns = << >>
       /\ ~ prompted
       /\ written = << >>

\* C7, amended: a refused command line ends the run with status 2 and a
\* usage message before any command runs: no row is added or changed,
\* nothing is listed, nothing exported.  By then init_db has run twice, and
\* the prompts have been shown when there is a first argument and it is
\* not a list command.
C7_RefusedBeforeAnyCommand ==
    [][/\ (pc = "parse" /\ pc' = "exited") =>
             /\ ~ args'.ok
             /\ exitCode' = Some(2)
             /\ stderr' = <<"usage">>
             /\ stdout' = << >>
             /\ written' = << >>
             /\ Len(conns') = 2
             /\ tables' = {"employees", "tasks", "shifts"}
             /\ prompted' <=> (Len(argv) > 0 /\ argv[1] \notin ListCommands)
       /\ (pc' = "exited" /\ ~ args'.ok) => pc \in {"parse", "exited"}
       /\ <<employees, tasks, shifts>> # <<employees, tasks, shifts>>' =>
             pc = "dispatch" /\ args.ok]_vars

\* add-employee with a role outside the choices has been refused, after
\* the prompts and after init_db created the tables
C7_Witness ==
    /\ pc = "exited"
    /\ ~ args.ok
    /\ argv = <<"add-employee", "Alice", "--role", "boss">>
    /\ prompted
    /\ Len(conns) = 2
    /\ tables # {}
    /\ exitCode = Some(2)

\* C9, as claimed: a run acquires at most one database connection, and
\* every connection it acquired is closed when it exits.
C9_OneConnectionClosedAsClaimed ==
    /\ Len(conns) <= 1
    /\ pc = "exited" => \A i \in 1..Len(conns) : conns[i] = "closed"

====
